---------------------------- MODULE Spec2Model ----------------------------
(***************************************************************************)
(* A model of gziptext, the transcoder between a gzip file and its         *)
(* annotated text form (package src/gziptext: Decompiler, Compiler,        *)
(* GzipHeader, GzipFooter, format_header, wrapline).                       *)
(*                                                                         *)
(* Bytes and characters are code points 0..255 (latin-1 maps one to the    *)
(* other), a binary stream is a sequence of bytes and a text stream is a   *)
(* flat sequence of characters with 10 as the line break.  A Python value  *)
(* that may be None or a missing attribute is a sequence of length 0 or 1. *)
(* An uncaught Python exception ends the run with its name in err.         *)
(***************************************************************************)
EXTENDS Integers, Sequences, FiniteSets, TLC

\* ------------------------------------------------------------------------
\* Program constants
\* ------------------------------------------------------------------------
BUFFER_SIZE == 4096
MAX_STR_LENGTH == 1048576
MAX_LINE_LENGTH == 1048576
WRAP_LENGTH == 72
FOOTER_SIZE == 8

\* ------------------------------------------------------------------------
\* Bounds of the model
\* ------------------------------------------------------------------------
\* the payload region holds up to MaxChunks full chunks plus a tail
MaxChunks == 2
\* the tails 0..MaxTail follow the full chunks
MaxTail == 9
\* wrapline is applied to every string over WrapChars up to this length
MaxWrapLen == 6
\* ... with every line length 1..MaxWrapN
MaxWrapN == 4
\* read_string is applied to the runs of 0..MaxRun bytes, and to the runs
\* around MAX_STR_LENGTH
MaxRun == 3

\* ------------------------------------------------------------------------
\* Characters
\* ------------------------------------------------------------------------
NL == 10
SP == 32
QUOTE == 34
HASH == 35
DASH == 45
EQUALS == 61
BACKSLASH == 92

\* str.isspace / str.strip() whitespace among the code points 0..255
Whitespace == {9, 10, 11, 12, 13, 28, 29, 30, 31, 32, 133, 160}

Min(a, b) == IF a < b THEN a ELSE b
Max(a, b) == IF a > b THEN a ELSE b

\* s[i:j] of Python for 0 <= i, clamped to the sequence
Slice(s, i, j) == SubSeq(s, i + 1, Min(j, Len(s)))
\* s[:-k] and s[-k:] of Python for k > 0
DropLast(s, k) == SubSeq(s, 1, Len(s) - k)
TakeLast(s, k) == SubSeq(s, Max(Len(s) - k, 0) + 1, Len(s))
\* s[-a:-b] of Python for a > b > 0
SliceFromEnd(s, a, b) == SubSeq(s, Max(Len(s) - a, 0) + 1, Len(s) - b)

\* Loops.  A loop that appends to a result is the concatenation of what its
\* rounds append, Piece(lo) \o ... \o Piece(hi), and a loop over a state is
\* at most n applications of its round, none once the loop has stopped; both
\* are evaluated by halves, which keeps the evaluation shallow whatever the
\* number of rounds.
\* F(v), with v evaluated once, before F is applied
Once(F(_), v) == CHOOSE r \in {F(x) : x \in {v}} : TRUE

RECURSIVE ConcatRange(_, _, _)
ConcatRange(Piece(_), lo, hi) ==
    IF lo > hi THEN <<>>
    ELSE IF lo = hi THEN Piece(lo)
    ELSE Once(LAMBDA mid : ConcatRange(Piece, lo, mid) \o ConcatRange(Piece, mid + 1, hi),
              (lo + hi) \div 2)

RECURSIVE Repeat(_, _, _, _)
Repeat(Round(_), Stopped(_), s, n) ==
    IF n = 0 \/ Stopped(s) THEN s
    ELSE IF n = 1 THEN Round(s)
    ELSE Once(LAMBDA m : Repeat(Round, Stopped, m, n - (n \div 2)),
              Repeat(Round, Stopped, s, n \div 2))

\* ------------------------------------------------------------------------
\* Exceptions
\* ------------------------------------------------------------------------
NoError == "none"
StructError == "struct.error"
NameError == "NameError"
TypeError == "TypeError"
AttributeError == "AttributeError"
NotImplementedError == "NotImplementedError: multiple extra fields not supported"
BadMagic == "ValueError: input is not a gzip file"
HeaderTruncated == "ValueError: header truncated"
ValueTooLong == "ValueError: value too long"
LineTooLong == "ValueError: line too long"
FileTruncated == "ValueError: file truncated"
MalformedLine == "ValueError: malformed config line"
UnknownField == "ValueError: unknown field"
NotQuoted == "ValueError: value not quoted properly"
InvalidInt == "ValueError: invalid literal for int()"
InvalidHex == "ValueError: non-hexadecimal number found in fromhex()"
Base64Error == "binascii.Error"

\* ------------------------------------------------------------------------
\* struct.pack / struct.unpack, little-endian
\* ------------------------------------------------------------------------
\* unpack('<B'), unpack('<H'), unpack('<I') of a buffer of the right size
U8(b) == b[1]
U16(b) == b[1] + 256 * b[2]
U32(b) == b[1] + 256 * b[2] + 65536 * b[3] + 16777216 * b[4]

\* pack('<B'), pack('<H'), pack('<I') of a value in range
P8(v) == <<v>>
P16(v) == <<v % 256, v \div 256>>
P32(v) == <<v % 256, (v \div 256) % 256, (v \div 65536) % 256, v \div 16777216>>

\* ------------------------------------------------------------------------
\* base64 (base64.b64encode, base64.b64decode)
\* ------------------------------------------------------------------------
PAD == 61

\* the character of a 6-bit value in the standard alphabet A-Z a-z 0-9 + /
B64Char(v) ==
    IF v < 26 THEN 65 + v
    ELSE IF v < 52 THEN 97 + (v - 26)
    ELSE IF v < 62 THEN 48 + (v - 52)
    ELSE IF v = 62 THEN 43 ELSE 47

IsB64Char(c) ==
    \/ c \in 65..90
    \/ c \in 97..122
    \/ c \in 48..57
    \/ c \in {43, 47}

B64Val(c) ==
    IF c \in 65..90 THEN c - 65
    ELSE IF c \in 97..122 THEN c - 97 + 26
    ELSE IF c \in 48..57 THEN c - 48 + 52
    ELSE IF c = 43 THEN 62 ELSE 63

\* b64encode: three bytes give four characters, a last group of one or two
\* bytes is padded with '='
b64encode(b) ==
    LET n == Len(b)
        at(i) == IF i <= n THEN b[i] ELSE 0
    IN  [i \in 1..(4 * ((n + 2) \div 3)) |->
            LET g == (i - 1) \div 4
                k == (i - 1) % 4
                b0 == at(3 * g + 1)
                b1 == at(3 * g + 2)
                b2 == at(3 * g + 3)
            IN  CASE k = 0 -> B64Char(b0 \div 4)
                  [] k = 1 -> B64Char((b0 % 4) * 16 + (b1 \div 16))
                  [] k = 2 -> IF 3 * g + 2 > n THEN PAD
                              ELSE B64Char((b1 % 16) * 4 + (b2 \div 64))
                  [] OTHER -> IF 3 * g + 3 > n THEN PAD
                              ELSE B64Char(b2 % 64)]

\* Decompiler.decode_buffer: b64encode(buf).decode()
decode_buffer(b) == b64encode(b)

\* b64decode of a string (validate=False): characters outside the alphabet
\* are discarded (b64decode), and of what is left (b64decode_clean) the data
\* characters before the padding are decoded four at a time; a group left
\* incomplete without its padding is an error.  Gives [ok, val].
b64decode_clean(clean) ==
    LET pads == {i \in 1..Len(clean) : clean[i] = PAD}
        \* the data characters before the first '='
        nd == IF pads = {} THEN Len(clean)
              ELSE (CHOOSE i \in pads : \A j \in pads : i <= j) - 1
        np == Len(clean) - nd
        full == nd \div 4
        rest == nd % 4
        v(i) == B64Val(clean[i])
        quad(g) == <<v(4*g+1) * 4 + v(4*g+2) \div 16,
                     (v(4*g+2) % 16) * 16 + v(4*g+3) \div 4,
                     (v(4*g+3) % 4) * 64 + v(4*g+4)>>
        body == [i \in 1..(3 * full) |-> quad((i - 1) \div 3)[((i - 1) % 3) + 1]]
        tail == CASE rest = 2 -> <<v(4*full+1) * 4 + v(4*full+2) \div 16>>
                  [] rest = 3 -> <<v(4*full+1) * 4 + v(4*full+2) \div 16,
                                   (v(4*full+2) % 16) * 16 + v(4*full+3) \div 4>>
                  [] OTHER -> <<>>
    IN  IF rest = 1 \/ (rest = 2 /\ np < 2) \/ (rest = 3 /\ np < 1)
        THEN [ok |-> FALSE, val |-> <<>>]
        ELSE [ok |-> TRUE, val |-> body \o tail]

b64decode(s) ==
    Once(b64decode_clean, SelectSeq(s, LAMBDA c : IsB64Char(c) \/ c = PAD))

\* ------------------------------------------------------------------------
\* util.py
\* ------------------------------------------------------------------------
\* range(0, len(bstr), length) as the sequence of its values
RangeStep(len, step) == [k \in 1..((len + step - 1) \div step) |-> (k - 1) * step]

\* wrapline with range(0, len(bstr) + 1, length): one more round, and so an
\* empty line, when the length of bstr is a multiple of length
wrapline_one_more(bstr, length) ==
    LET idxs == RangeStep(Len(bstr) + 1, length)
    IN  ConcatRange(LAMBDA k : Slice(bstr, idxs[k], idxs[k] + length) \o <<NL>>,
                    1, Len(idxs))

\* wrapline(bstr, length): res += bstr[idx:idx+length] + '\n' for each idx
wrapline(bstr, length) ==
    LET idxs == RangeStep(Len(bstr), length)
    IN  ConcatRange(LAMBDA k : Slice(bstr, idxs[k], idxs[k] + length) \o <<NL>>,
                    1, Len(idxs))

\* parse_string: the value must match ".*"$ ; the characters between the
\* quotes are kept, except backslashes.  Gives [err, val].
IsQuoted(buf) ==
    /\ Len(buf) >= 2
    /\ buf[1] = QUOTE
    /\ buf[Len(buf)] = QUOTE
    /\ \A i \in 1..Len(buf) : buf[i] # NL

parse_string(buf) ==
    IF ~IsQuoted(buf) THEN [err |-> NotQuoted, val |-> <<>>]
    ELSE [err |-> NoError,
          val |-> SelectSeq(SubSeq(buf, 2, Len(buf) - 1),
                            LAMBDA c : c # BACKSLASH)]

IsHexDigit(c) == c \in 48..57 \/ c \in 97..102 \/ c \in 65..70
HexVal(c) == IF c \in 48..57 THEN c - 48
             ELSE IF c \in 97..102 THEN c - 97 + 10 ELSE c - 65 + 10
HexDigit(v) == IF v < 10 THEN 48 + v ELSE 97 + (v - 10)

\* parse_bytes: list(bytearray.fromhex(buf[1:-1])): pairs of hex digits,
\* spaces between the pairs skipped.  Gives [err, val].
parse_bytes(buf) ==
    IF ~IsQuoted(buf) THEN [err |-> NotQuoted, val |-> <<>>]
    ELSE LET hex == SelectSeq(SubSeq(buf, 2, Len(buf) - 1),
                              LAMBDA c : c \notin Whitespace)
         IN  IF Len(hex) % 2 # 0 \/ \E i \in 1..Len(hex) : ~IsHexDigit(hex[i])
             THEN [err |-> InvalidHex, val |-> <<>>]
             ELSE [err |-> NoError,
                   val |-> [i \in 1..(Len(hex) \div 2) |->
                              16 * HexVal(hex[2*i - 1]) + HexVal(hex[2*i])]]

\* the bit of weight p (a power of two) of a xor b
XorBit(a, b, p) == (((a \div p) + (b \div p)) % 2) * p

\* a xor b for 0 <= a, b < 2^16
Xor(a, b) ==
    XorBit(a, b, 1) + XorBit(a, b, 2) + XorBit(a, b, 4) + XorBit(a, b, 8)
    + XorBit(a, b, 16) + XorBit(a, b, 32) + XorBit(a, b, 64) + XorBit(a, b, 128)
    + XorBit(a, b, 256) + XorBit(a, b, 512) + XorBit(a, b, 1024)
    + XorBit(a, b, 2048) + XorBit(a, b, 4096) + XorBit(a, b, 8192)
    + XorBit(a, b, 16384) + XorBit(a, b, 32768)

\* zlib.crc32 (ISO 3309, polynomial EDB88320 reflected), the 32-bit register
\* kept as its high and low 16-bit halves <<hi, lo>>: one shift of the
\* register ...
CrcShift(c) ==
    LET hi == c[1] \div 2
        lo == (c[2] \div 2) + 32768 * (c[1] % 2)
    IN  IF c[2] % 2 = 1 THEN <<Xor(hi, 60856), Xor(lo, 33568)>>
        ELSE <<hi, lo>>

\* ... the entry of the CRC table for the low byte b: eight shifts ...
CrcTable ==
    [b \in 0..255 |-> Repeat(CrcShift, LAMBDA c : FALSE, <<0, b>>, 8)]

\* ... and the step for one byte: table[(crc ^ byte) & 0xff] ^ (crc >> 8)
CrcByte(c, byte) ==
    Once(LAMBDA t : <<Xor(t[1], c[1] \div 256),
                      Xor(t[2], (c[2] \div 256) + 256 * (c[1] % 256))>>,
         CrcTable[Xor(c[2] % 256, byte)])

\* the register after the first n bytes of buf
RECURSIVE CrcBytes(_, _, _)
CrcBytes(c, buf, n) ==
    IF n = 0 THEN c
    ELSE Once(LAMBDA before : CrcByte(before, buf[n]), CrcBytes(c, buf, n - 1))

CrcRegister(buf) == CrcBytes(<<65535, 65535>>, buf, Len(buf))

zlib_crc32(buf) ==
    Once(LAMBDA b : Once(LAMBDA c : <<Xor(c[1], 65535), Xor(c[2], 65535)>>, CrcRegister(b)),
         buf)

\* crc16(buf): zlib.crc32(buf) & 0xffff
crc16(buf) == zlib_crc32(buf)[2]

\* ------------------------------------------------------------------------
\* str(int) and int(str)
\* ------------------------------------------------------------------------
RECURSIVE Digits(_)
Digits(v) == IF v < 10 THEN <<48 + v>> ELSE Digits(v \div 10) \o <<48 + (v % 10)>>

\* str(v) for an int v
str(v) == IF v < 0 THEN <<DASH>> \o Digits(0 - v) ELSE Digits(v)

RECURSIVE DigitsVal(_, _)
DigitsVal(acc, ds) ==
    IF ds = <<>> THEN acc ELSE DigitsVal(10 * acc + (Head(ds) - 48), Tail(ds))

\* str.strip()
RECURSIVE LStrip(_)
LStrip(s) == IF s # <<>> /\ Head(s) \in Whitespace THEN LStrip(Tail(s)) ELSE s
RECURSIVE RStrip(_)
RStrip(s) ==
    IF s # <<>> /\ s[Len(s)] \in Whitespace THEN RStrip(SubSeq(s, 1, Len(s) - 1))
    ELSE s
strip(s) == Once(LAMBDA v : RStrip(LStrip(v)), s)

\* int(buf): an optional sign and decimal digits (the underscore digit
\* separators int() also takes are left out).  Gives [err, val].
int(buf) ==
    Once(LAMBDA t :
             LET signed == t # <<>> /\ t[1] \in {43, DASH}
                 ds == IF signed THEN Tail(t) ELSE t
             IN  IF ds = <<>> \/ \E i \in 1..Len(ds) : ds[i] \notin 48..57
                 THEN [err |-> InvalidInt, val |-> 0]
                 ELSE [err |-> NoError,
                       val |-> IF signed /\ t[1] = DASH THEN 0 - DigitsVal(0, ds)
                               ELSE DigitsVal(0, ds)],
         strip(buf))

\* ------------------------------------------------------------------------
\* gstruct.py: GzipHeader, GzipFooter
\* ------------------------------------------------------------------------
\* An attribute holds <<v>>, or <<>> for None (for cm and xlen, which
\* __init__ does not set: for a missing attribute).  name and comment hold
\* [t, v] with t the Python type, "str" or "bytes", and v the code points;
\* extdata holds [t, v] with t "bytes" or "list".
None == <<>>
Some(v) == <<v>>
IsNone(o) == o = <<>>
Val(o) == o[1]

HeaderFields ==
    {"id1", "id2", "cm", "ftext", "fhcrc", "fextra", "fname", "fcomment",
     "mtime", "xfl", "os", "extsi1", "extsi2", "extdata", "name", "comment",
     "crc16", "xlen"}

\* GzipHeader.__init__
NewHeader ==
    [f \in HeaderFields |->
        CASE f \in {"id1", "id2", "ftext", "fhcrc", "fextra", "fname",
                    "fcomment", "mtime", "xfl"} -> Some(0)
          [] f = "os" -> Some(255)
          [] OTHER -> None]

\* GzipFooter.__init__
NewFooter == [crc32 |-> Some(0), isize |-> Some(0)]

\* bool(x) of an attribute that holds an int or None
Truthy(o) == ~IsNone(o) /\ Val(o) # 0

\* GzipHeader.flg
flg(hd) ==
    (IF Truthy(hd["ftext"]) THEN 1 ELSE 0)
    + (IF Truthy(hd["fhcrc"]) THEN 2 ELSE 0)
    + (IF Truthy(hd["fextra"]) THEN 4 ELSE 0)
    + (IF Truthy(hd["fname"]) THEN 8 ELSE 0)
    + (IF Truthy(hd["fcomment"]) THEN 16 ELSE 0)

\* n & bit for a power of two bit, as 0 or 1
Bit(n, bit) == (n \div bit) % 2

\* GzipHeader.set_flg
set_flg(hd, f) ==
    [hd EXCEPT !["ftext"] = Some(Bit(f, 1)),
               !["fhcrc"] = Some(Bit(f, 2)),
               !["fextra"] = Some(Bit(f, 4)),
               !["fname"] = Some(Bit(f, 8)),
               !["fcomment"] = Some(Bit(f, 16))]

\* whether pack takes the attribute for a format of the given width
Packs(o, limit) == ~IsNone(o) /\ Val(o) >= 0 /\ Val(o) < limit

\* GzipFooter.__bytes__: pack('<II', crc32, isize).  Gives [err, val].
\* (The model keeps 32-bit values below 2^31.)
FooterBytes(ft) ==
    IF IsNone(ft.crc32) \/ IsNone(ft.isize) \/ Val(ft.crc32) < 0 \/ Val(ft.isize) < 0
    THEN [err |-> StructError, val |-> <<>>]
    ELSE [err |-> NoError, val |-> P32(Val(ft.crc32)) \o P32(Val(ft.isize))]

\* ------------------------------------------------------------------------
\* format.py
\* ------------------------------------------------------------------------
\* the characters of a field name
Word(k) ==
    CASE k = "id1" -> <<105, 100, 49>>
      [] k = "id2" -> <<105, 100, 50>>
      [] k = "cm" -> <<99, 109>>
      [] k = "ftext" -> <<102, 116, 101, 120, 116>>
      [] k = "fhcrc" -> <<102, 104, 99, 114, 99>>
      [] k = "fextra" -> <<102, 101, 120, 116, 114, 97>>
      [] k = "fname" -> <<102, 110, 97, 109, 101>>
      [] k = "fcomment" -> <<102, 99, 111, 109, 109, 101, 110, 116>>
      [] k = "mtime" -> <<109, 116, 105, 109, 101>>
      [] k = "xfl" -> <<120, 102, 108>>
      [] k = "os" -> <<111, 115>>
      [] k = "extsi1" -> <<101, 120, 116, 115, 105, 49>>
      [] k = "extsi2" -> <<101, 120, 116, 115, 105, 50>>
      [] k = "extdata" -> <<101, 120, 116, 100, 97, 116, 97>>
      [] k = "name" -> <<110, 97, 109, 101>>
      [] k = "comment" -> <<99, 111, 109, 109, 101, 110, 116>>
      [] k = "crc16" -> <<99, 114, 99, 49, 54>>
      [] k = "crc32" -> <<99, 114, 99, 51, 50>>
      [] k = "isize" -> <<105, 115, 105, 122, 101>>
      [] k = "xlen" -> <<120, 108, 101, 110>>

\* The lines of HEADER_TEMPLATE in order: a comment line (Cm, its text
\* after the # left out), an empty line (Bl), or "key = {slot}".
Cm == [key |-> "#", slot |-> ""]
Bl == [key |-> "", slot |-> ""]
KV(k, s) == [key |-> k, slot |-> s]

HEADER_TEMPLATE ==
    <<
       Cm, Cm, Cm, Cm, Bl, KV("id1", "id1"), KV("id2", "id2"), Bl,
       Cm, Cm, Cm, Bl, KV("cm", "cm"), Bl,
       Cm, Cm, Bl, KV("ftext", "ftext"), Bl,
       Cm, Cm, Cm, Bl, KV("fhcrc", "fhcrc"), Bl,
       Cm, Cm, Bl, KV("fextra", "fextra"), Bl,
       Cm, Cm, Cm, Bl, KV("fname", "fname"), Bl,
       Cm, Cm, Cm, Bl, KV("fcomment", "fcomment"), Bl,
       Cm, Cm, Cm, Cm, Bl, KV("mtime", "mtime"), Bl,
       Cm, Cm, Cm, Cm, Cm, Cm, Cm, Bl, KV("xfl", "xfl"), Bl,
       Cm, Cm, Cm, Cm, Cm, Cm, Cm, Cm, Cm, Cm, Cm, Cm, Cm, Cm, Cm, Cm, Cm,
       Bl, KV("os", "os"), Bl,
       Cm, Cm, Bl, KV("extsi1", "extsi2"), KV("extsi2", "extsi2"),
       KV("extdata", "extdata"), Bl,
       Cm, Cm, Cm, Bl, KV("name", "name"), Bl,
       Cm, Cm, Cm, Bl, KV("comment", "comment"), Bl,
       Cm, Cm, Cm, Cm, Bl, KV("crc16", "crc16")
    >>

FOOTER_TEMPLATE ==
    <<Bl, Cm, KV("crc32", "crc32"), Bl, Cm, KV("isize", "isize")>>

\* str.format of one template line
FormatLine(item, dic) ==
    CASE item.key = "#" -> <<HASH, NL>>
      [] item.key = "" -> <<NL>>
      [] OTHER -> Word(item.key) \o <<SP, EQUALS, SP>> \o dic[item.slot] \o <<NL>>

\* TEMPLATE.format(**dic)
FormatTemplate(items, dic) ==
    ConcatRange(LAMBDA k : FormatLine(items[k], dic), 1, Len(items))

IntFields ==
    {"id1", "id2", "cm", "ftext", "fhcrc", "fextra", "fname", "fcomment",
     "mtime", "xfl", "os", "extsi1", "extsi2", "crc16", "isize", "crc32"}
StringFields == {"name", "comment"}

\* the fields list of format_header, in its order
FormatFields ==
    <<"id1", "id2", "cm", "ftext", "fhcrc", "fextra", "fname", "fcomment",
      "mtime", "xfl", "os", "extsi1", "extsi2", "extdata", "name", "comment",
      "crc16">>

\* What one round of format_header's loop does with a field: the exception
\* it raises, if any ...
FormatFieldError(hd, field) ==
    CASE field = "cm" /\ IsNone(hd[field]) -> AttributeError
      [] IsNone(hd[field]) -> NoError
      [] field \in IntFields -> NoError
      [] field \in StringFields ->
            \* '"' + val + '"' takes a str only
            IF Val(hd[field]).t = "str" THEN NoError ELSE TypeError
      [] OTHER ->
            \* '{:02x}'.format(val) of a bytes or list value
            TypeError

\* ... and the text it puts in dic
FormatField(hd, field) ==
    CASE IsNone(hd[field]) -> <<>>
      [] field \in IntFields -> str(Val(hd[field]))
      [] field \in StringFields -> <<QUOTE>> \o Val(hd[field]).v \o <<QUOTE>>
      [] OTHER -> <<>>

\* format_header(hd).  Gives [err, val].
format_header(hd) ==
    LET bad == {i \in 1..Len(FormatFields) :
                    FormatFieldError(hd, FormatFields[i]) # NoError}
        dic == [f \in HeaderFields |-> FormatField(hd, f)]
    IN  IF bad # {}
        THEN [err |-> FormatFieldError(hd,
                         FormatFields[CHOOSE i \in bad : \A j \in bad : i <= j]),
              val |-> <<>>]
        ELSE [err |-> NoError, val |-> FormatTemplate(HEADER_TEMPLATE, dic)]

\* format_footer(ft)
format_footer(ft) ==
    FormatTemplate(FOOTER_TEMPLATE,
                   [crc32 |-> str(Val(ft.crc32)), isize |-> str(Val(ft.isize))])

\* ------------------------------------------------------------------------
\* decompiler.py
\* ------------------------------------------------------------------------
GZIP_MAGIC == <<31, 139>>

\* fp.read(n) at position pos of the stream
Read(bytes, pos, n) == Slice(bytes, pos, pos + n)

\* Decompiler.read_string.  The loop works on [err, i, pos, stop], with stop
\* set by the break and by an exception; ReadStringRound is one round of
\* "while True", which reads one byte.  s holds the bytes the rounds before
\* have read, so it is not carried along: it is the slice of the stream
\* from the start to the byte before the NUL, and s.decode(ENCODING) has
\* its code points.  Gives [err, val, pos].
ReadStringRound(bytes, t) ==
    LET c == Read(bytes, t.pos, 1)
    IN  IF t.stop THEN t
        ELSE IF t.i > MAX_STR_LENGTH
        THEN [t EXCEPT !.err = ValueTooLong, !.pos = t.pos + Len(c), !.stop = TRUE]
        ELSE IF c = <<>> THEN [t EXCEPT !.err = HeaderTruncated, !.stop = TRUE]
        ELSE IF c = <<0>> THEN [t EXCEPT !.pos = t.pos + 1, !.stop = TRUE]
        ELSE [t EXCEPT !.i = t.i + 1, !.pos = t.pos + 1]

read_string(bytes, pos) ==
    Once(LAMBDA t : [err |-> t.err,
                     val |-> IF t.err = NoError THEN Slice(bytes, pos, t.pos - 1) ELSE <<>>,
                     pos |-> t.pos],
         Repeat(LAMBDA t : ReadStringRound(bytes, t), LAMBDA t : t.stop,
                [err |-> NoError, i |-> 1, pos |-> pos, stop |-> FALSE],
                Len(bytes) - pos + 1))

HeaderFail(e, hd, pos) == [err |-> e, hd |-> hd, pos |-> pos]

\* Decompiler.read_header from "if hd.fhcrc" on: None += tuple
ReadHcrc(bytes, hd, pos) ==
    IF ~Truthy(hd["fhcrc"]) THEN HeaderFail(NoError, hd, pos)
    ELSE LET b == Read(bytes, pos, 2)
         IN  IF Len(b) # 2 THEN HeaderFail(StructError, hd, pos + Len(b))
             ELSE HeaderFail(TypeError, hd, pos + 2)

\* ... from "if hd.fcomment" on
ReadComment(bytes, hd, pos) ==
    IF ~Truthy(hd["fcomment"]) THEN ReadHcrc(bytes, hd, pos)
    ELSE LET r == read_string(bytes, pos)
         IN  IF r.err # NoError THEN HeaderFail(r.err, hd, r.pos)
             ELSE ReadHcrc(bytes,
                           [hd EXCEPT !["comment"] = Some([t |-> "str", v |-> r.val])],
                           r.pos)

\* ... from "if hd.fname" on
ReadName(bytes, hd, pos) ==
    IF ~Truthy(hd["fname"]) THEN ReadComment(bytes, hd, pos)
    ELSE LET r == read_string(bytes, pos)
         IN  IF r.err # NoError THEN HeaderFail(r.err, hd, r.pos)
             ELSE ReadComment(bytes,
                              [hd EXCEPT !["name"] = Some([t |-> "str", v |-> r.val])],
                              r.pos)

\* ... from "if hd.fextra" on.  The test "extlen != (xlen - 4)" reads xlen,
\* a name that read_header never binds (the length is in hd.xlen): once the
\* two unpacks before it have passed, the branch ends in NameError.
ReadExtra(bytes, hd, pos) ==
    IF ~Truthy(hd["fextra"]) THEN ReadName(bytes, hd, pos)
    ELSE LET x == Read(bytes, pos, 2)
         IN  IF Len(x) # 2 THEN HeaderFail(StructError, hd, pos + Len(x))
             ELSE LET hd1 == [hd EXCEPT !["xlen"] = Some(U16(x))]
                      b == Read(bytes, pos + 2, U16(x))
                  IN  IF Len(Slice(b, 0, 4)) # 4
                      THEN HeaderFail(StructError, hd1, pos + 2 + Len(b))
                      ELSE HeaderFail(NameError,
                                      [hd1 EXCEPT !["extsi1"] = Some(b[1]),
                                                  !["extsi2"] = Some(b[2])],
                                      pos + 2 + Len(b))

\* Decompiler.read_header(fp).  Gives [err, hd, pos].
Decompiler_read_header(bytes) ==
    LET m == Read(bytes, 0, 2)
        b == Read(bytes, 2, 8)
    IN  IF Len(m) # 2 THEN HeaderFail(StructError, NewHeader, Len(m))
        ELSE IF m # GZIP_MAGIC
        THEN HeaderFail(BadMagic,
                        [NewHeader EXCEPT !["id1"] = Some(m[1]), !["id2"] = Some(m[2])],
                        2)
        ELSE IF Len(b) # 8 THEN HeaderFail(StructError, NewHeader, 2 + Len(b))
        ELSE ReadExtra(bytes,
                       set_flg([NewHeader EXCEPT !["id1"] = Some(m[1]),
                                                 !["id2"] = Some(m[2]),
                                                 !["cm"] = Some(b[1]),
                                                 !["mtime"] = Some(U32(SubSeq(b, 3, 6))),
                                                 !["xfl"] = Some(b[7]),
                                                 !["os"] = Some(b[8])],
                               b[2]),
                       10)

\* ------------------------------------------------------------------------
\* gstruct.py: GzipHeader.__bytes__
\* ------------------------------------------------------------------------
BytesFail(e) == [err |-> e, val |-> <<>>]

\* "if self.fhcrc: res += pack('<H', crc16(res))": gstruct.py imports pack
\* only, so the call of crc16 raises NameError
BytesHcrc(hd, res) ==
    IF ~Truthy(hd["fhcrc"]) THEN [err |-> NoError, val |-> res]
    ELSE BytesFail(NameError)

\* self.name + b'\0' and self.comment + b'\0': None or a str cannot be
\* added to bytes
BytesComment(hd, res) ==
    IF ~Truthy(hd["fcomment"]) THEN BytesHcrc(hd, res)
    ELSE IF IsNone(hd["comment"]) \/ Val(hd["comment"]).t # "bytes"
    THEN BytesFail(TypeError)
    ELSE BytesHcrc(hd, res \o Val(hd["comment"]).v \o <<0>>)

BytesName(hd, res) ==
    IF ~Truthy(hd["fname"]) THEN BytesComment(hd, res)
    ELSE IF IsNone(hd["name"]) \/ Val(hd["name"]).t # "bytes"
    THEN BytesFail(TypeError)
    ELSE BytesComment(hd, res \o Val(hd["name"]).v \o <<0>>)

\* the fextra branch: self.xlen is set by Decompiler.read_header only
BytesExtra(hd, res) ==
    IF ~Truthy(hd["fextra"]) THEN BytesName(hd, res)
    ELSE IF IsNone(hd["xlen"]) THEN BytesFail(AttributeError)
    ELSE IF ~Packs(hd["xlen"], 65536) THEN BytesFail(StructError)
    ELSE IF IsNone(hd["extdata"]) THEN BytesFail(TypeError)
    ELSE IF \/ ~Packs(hd["extsi1"], 256)
            \/ ~Packs(hd["extsi2"], 256)
            \/ Len(Val(hd["extdata"]).v) >= 65536
    THEN BytesFail(StructError)
    ELSE IF Val(hd["extdata"]).t # "bytes" THEN BytesFail(TypeError)
    ELSE BytesName(hd, res \o P16(Val(hd["xlen"]))
                           \o <<Val(hd["extsi1"]), Val(hd["extsi2"])>>
                           \o P16(Len(Val(hd["extdata"]).v))
                           \o Val(hd["extdata"]).v)

\* GzipHeader.__bytes__.  Gives [err, val].
HeaderBytes(hd) ==
    IF ~Packs(hd["id1"], 256) \/ ~Packs(hd["id2"], 256) THEN BytesFail(StructError)
    ELSE IF IsNone(hd["cm"]) THEN BytesFail(AttributeError)
    ELSE IF \/ ~Packs(hd["cm"], 256)
            \/ IsNone(hd["mtime"]) \/ Val(hd["mtime"]) < 0
            \/ ~Packs(hd["xfl"], 256)
            \/ ~Packs(hd["os"], 256)
    THEN BytesFail(StructError)
    ELSE BytesExtra(hd, <<Val(hd["id1"]), Val(hd["id2"]), Val(hd["cm"]), flg(hd)>>
                        \o P32(Val(hd["mtime"]))
                        \o <<Val(hd["xfl"]), Val(hd["os"])>>)

\* ------------------------------------------------------------------------
\* compiler.py
\* ------------------------------------------------------------------------
\* the index of the next line break at or after i, or Len(text)
RECURSIVE FindNL(_, _)
FindNL(text, i) ==
    IF i >= Len(text) THEN Len(text)
    ELSE IF text[i] = NL THEN i
    ELSE FindNL(text, i + 1)

\* fp.readline(MAX_LINE_LENGTH+1) at position pos: the characters up to and
\* with the line break, '' at the end of the file
ReadLine(text, pos) ==
    IF pos >= Len(text) THEN <<>>
    ELSE SubSeq(text, pos + 1, Min(FindNL(text, pos + 1), pos + MAX_LINE_LENGTH + 1))

startswith(line, c) == line # <<>> /\ line[1] = c
isspace(line) == line # <<>> /\ \A i \in 1..Len(line) : line[i] \in Whitespace

\* Compiler.is_section_end
is_section_end(line) == Len(line) >= 2 /\ line[1] = DASH /\ line[2] = DASH

\* line.find('='): the index from 0, or -1
RECURSIVE FindFrom(_, _, _)
FindFrom(line, c, i) ==
    IF i > Len(line) THEN -1
    ELSE IF line[i] = c THEN i - 1
    ELSE FindFrom(line, c, i + 1)
find(line, c) == FindFrom(line, c, 1)

WordsOf(fields) == {Word(f) : f \in fields}

\* Compiler.parse_value(word, buf), after "buf = buf.strip()".  Gives
\* [err, val], val None or <<v>>.
parse_stripped(word, b) ==
    IF b = <<>> THEN [err |-> NoError, val |-> None]
    ELSE IF word \in WordsOf(IntFields)
    THEN Once(LAMBDA r : [err |-> r.err, val |-> Some(r.val)], int(b))
    ELSE IF word \in WordsOf(StringFields)
    THEN Once(LAMBDA r : [err |-> r.err, val |-> Some([t |-> "bytes", v |-> r.val])],
              parse_string(b))
    ELSE IF word = Word("extdata")
    THEN Once(LAMBDA r : [err |-> r.err, val |-> Some([t |-> "list", v |-> r.val])],
              parse_bytes(b))
    ELSE [err |-> UnknownField, val |-> None]

\* Compiler.parse_value(word, buf)
parse_value(word, buf) == Once(LAMBDA b : parse_stripped(word, b), strip(buf))

\* setattr(header, word, value): an attribute that __bytes__ never reads
\* (crc32 or isize in the header section) is not kept
SetHeaderAttr(hd, word, value) ==
    IF \E f \in HeaderFields : Word(f) = word
    THEN [hd EXCEPT ![CHOOSE f \in HeaderFields : Word(f) = word] = value]
    ELSE hd

\* setattr(footer, word, value), likewise
SetFooterAttr(ft, word, value) ==
    IF word = Word("crc32") THEN [ft EXCEPT !.crc32 = value]
    ELSE IF word = Word("isize") THEN [ft EXCEPT !.isize = value]
    ELSE ft

\* the number of lines left in the text after position pos
LinesLeft(text, pos) == Cardinality({i \in (pos + 1)..Len(text) : text[i] = NL}) + 1

\* The loop of Compiler.read_header, on its state [err, hd, pos, stop]:
\* stop is set by the break and by an exception.  HeaderField is a round
\* from "value = self.parse_value(word, line[i+1:])" on, with value (r) ...
HeaderField(s, next, word, r) ==
    IF r.err # NoError THEN [err |-> r.err, hd |-> s.hd, pos |-> next, stop |-> TRUE]
    ELSE IF ~IsNone(r.val)
    THEN [s EXCEPT !.pos = next, !.hd = SetHeaderAttr(s.hd, word, r.val)]
    ELSE [s EXCEPT !.pos = next]

\* ... HeaderWord is a round from "word = line[:i].strip()" on, with word
\* and line[i+1:] (buf) ...
HeaderWord(s, next, word, buf) ==
    Once(LAMBDA r : HeaderField(s, next, word, r), parse_value(word, buf))

\* ... HeaderLine is a round after its readline, with the line read ...
HeaderLine(s, line) ==
    LET next == s.pos + Len(line)
        i == find(line, EQUALS)
        raise(e) == [err |-> e, hd |-> s.hd, pos |-> next, stop |-> TRUE]
    IN  IF Len(line) > MAX_LINE_LENGTH THEN raise(LineTooLong)
        ELSE IF line = <<>> THEN raise(FileTruncated)
        ELSE IF startswith(line, HASH) \/ isspace(line) THEN [s EXCEPT !.pos = next]
        ELSE IF is_section_end(line) THEN [s EXCEPT !.pos = next, !.stop = TRUE]
        ELSE IF i < 0 THEN raise(MalformedLine)
        ELSE Once(LAMBDA word : HeaderWord(s, next, word, Slice(line, i + 1, Len(line))),
                  strip(Slice(line, 0, i)))

\* ... and HeaderRound is one round.
HeaderRound(text, s) ==
    IF s.stop THEN s
    ELSE Once(LAMBDA line : HeaderLine(s, line), ReadLine(text, s.pos))

\* Compiler.read_header(fp) from position pos.  Every round but the last
\* takes a line, and the round after the last line raises, so the loop has
\* stopped after one round more than there are lines.  Gives [err, hd, pos].
Compiler_read_header(text, pos) ==
    Once(LAMBDA n :
             Once(LAMBDA s : [err |-> s.err, hd |-> s.hd, pos |-> s.pos],
                  Repeat(LAMBDA t : HeaderRound(text, t), LAMBDA t : t.stop,
                         [err |-> NoError, hd |-> NewHeader, pos |-> pos, stop |-> FALSE],
                         n)),
         LinesLeft(text, pos) + 1)

\* The loop of Compiler.read_footer, on its state [err, ft, pos, stop], in
\* the same parts.
FooterField(s, next, word, r) ==
    IF r.err # NoError THEN [err |-> r.err, ft |-> s.ft, pos |-> next, stop |-> TRUE]
    ELSE [s EXCEPT !.pos = next, !.ft = SetFooterAttr(s.ft, word, r.val)]

FooterWord(s, next, word, buf) ==
    Once(LAMBDA r : FooterField(s, next, word, r), parse_value(word, buf))

FooterLine(s, line) ==
    LET next == s.pos + Len(line)
        i == find(line, EQUALS)
        raise(e) == [err |-> e, ft |-> s.ft, pos |-> next, stop |-> TRUE]
    IN  IF Len(line) > MAX_LINE_LENGTH THEN raise(LineTooLong)
        ELSE IF startswith(line, HASH) \/ isspace(line) THEN [s EXCEPT !.pos = next]
        ELSE IF line = <<>> THEN [s EXCEPT !.stop = TRUE]
        ELSE IF i < 0 THEN raise(MalformedLine)
        ELSE Once(LAMBDA word : FooterWord(s, next, word, Slice(line, i + 1, Len(line))),
                  strip(Slice(line, 0, i)))

FooterRound(text, s) ==
    IF s.stop THEN s
    ELSE Once(LAMBDA line : FooterLine(s, line), ReadLine(text, s.pos))

\* Compiler.read_footer(fp) from position pos: the loop ends at the end of
\* the file.  Gives [err, ft, pos].
read_footer(text, pos) ==
    Once(LAMBDA n :
             Once(LAMBDA s : [err |-> s.err, ft |-> s.ft, pos |-> s.pos],
                  Repeat(LAMBDA t : FooterRound(text, t), LAMBDA t : t.stop,
                         [err |-> NoError, ft |-> NewFooter, pos |-> pos, stop |-> FALSE],
                         n)),
         LinesLeft(text, pos) + 1)

\* the positions of the line breaks of a text, in order
LineEnds(text) ==
    ConcatRange(LAMBDA k : IF text[k] = NL THEN <<k>> ELSE <<>>, 1, Len(text))

\* What the loop of Compiler.compile writes for the lines of a payload
\* section: b64decode(line.strip()) of each line, one after the other
DecodeLines(text) ==
    LET ends == LineEnds(text)
        line(k) == SubSeq(text, (IF k = 1 THEN 0 ELSE ends[k - 1]) + 1, ends[k])
    IN  ConcatRange(LAMBDA k : b64decode(strip(line(k))).val, 1, Len(ends))

\* ------------------------------------------------------------------------
\* Inputs
\* ------------------------------------------------------------------------
FTEXT == 1
FHCRC == 2
FEXTRA == 4
FNAME == 8
FCOMMENT == 16

\* "a", "hi.txt", the empty name and a name with a backslash, "a\b"
Names == {<<97>>, <<104, 105, 46, 116, 120, 116>>, <<>>, <<97, 92, 98>>}
\* "c" and a comment with a byte above 127
Comments == {<<99>>, <<233, 33>>}
\* the data of the one extra subfield
ExtraDatas == {<<>>, <<1, 171>>}

\* A gzip member as RFC 1952 lays it out: the header with the optional
\* fields its flags name, then the payload region (compressed data and the
\* 8-byte footer).
GzipHeaderBytes(i) ==
    LET base == <<31, 139, i.cm, i.flg>> \o P32(i.mtime) \o <<i.xfl, i.os>>
        extra == IF Bit(i.flg, FEXTRA) = 1
                 THEN P16(Len(i.extra) + 4) \o <<65, 112>> \o P16(Len(i.extra)) \o i.extra
                 ELSE <<>>
        name == IF Bit(i.flg, FNAME) = 1 THEN i.name \o <<0>> ELSE <<>>
        comment == IF Bit(i.flg, FCOMMENT) = 1 THEN i.comment \o <<0>> ELSE <<>>
        front == base \o extra \o name \o comment
    IN  IF Bit(i.flg, FHCRC) = 1 THEN front \o P16(crc16(front)) ELSE front

\* The payload region: rlen bytes that depend on the position and the seed.
\* The last 16 stay below 128, so that the footer's 32-bit values stay
\* below 2^31.
Region(rlen, seed) ==
    [k \in 1..rlen |->
        IF k > rlen - 16 THEN (37 * k + seed) % 128 ELSE (37 * k + seed) % 256]

\* (a field whose flag is clear is left empty)
GzipInput(f, nm, co, ex, mt, rl, sd) ==
    [kind |-> "gzip", cm |-> 8, flg |-> f, mtime |-> mt, xfl |-> 2, os |-> 3,
     extra |-> IF Bit(f, FEXTRA) = 1 THEN ex ELSE <<>>,
     name |-> IF Bit(f, FNAME) = 1 THEN nm ELSE <<>>,
     comment |-> IF Bit(f, FCOMMENT) = 1 THEN co ELSE <<>>,
     rlen |-> rl, seed |-> sd]

\* every set of flags, with each field its flag calls for
HeaderInputs ==
    {GzipInput(f, nm, co, ex, 0, rl, 7) :
        f \in 0..31, nm \in Names, co \in Comments, ex \in ExtraDatas, rl \in {8, 20}}

\* every length of the payload region around the chunk boundaries
RegionLens ==
    {k * BUFFER_SIZE + r : k \in 0..MaxChunks, r \in 0..MaxTail}

PayloadInputs ==
    {GzipInput(f, <<97>>, <<>>, <<>>, 1700000000, rl, sd) :
        f \in {0, FNAME}, rl \in RegionLens, sd \in {0, 101}}

\* streams that are no gzip member, or a cut one
RawStreams ==
    {<<>>, <<31>>, <<139>>, <<0, 0>>, <<139, 31>>, <<31, 140>>, <<31, 139>>,
     <<80, 75, 3, 4, 20, 0, 0, 0, 8, 0, 1, 2>>,
     <<31, 140, 8, 0, 0, 0, 0, 0, 0, 255, 1, 2, 3, 4, 5, 6, 7, 8>>,
     <<31, 139, 8>>, <<31, 139, 8, 8, 0, 0, 0, 0, 0, 3, 97, 98>>}

RawInputs == {[kind |-> "raw", bytes |-> b] : b \in RawStreams}

\* the bytes of a binary input
InputBytes(i) ==
    IF i.kind = "raw" THEN i.bytes
    ELSE GzipHeaderBytes(i) \o Region(i.rlen, i.seed)

\* A text as an operator may have edited it: the header lines with the
\* flags of i.flags set to 1 and the optional fields of i.fields filled in,
\* one more line (i.line) in the header or the footer section, and the text
\* cut short (i.cut) before the first or the second delimiter.
OptionalOf == [fextra |-> "extra", fname |-> "name", fcomment |-> "comment", fhcrc |-> "crc16"]
FlagNames == {"fextra", "fname", "fcomment", "fhcrc"}
OptionalNames == {"extra", "name", "comment", "crc16"}

\* "key = value\n"
KeyLine(k, v) == Word(k) \o <<SP, EQUALS, SP>> \o v \o <<NL>>

\* "foo = bar\n" and "foo = \n"
ExtraLine(kind) ==
    CASE kind = "unknown" -> <<102, 111, 111, SP, EQUALS, SP, 98, 97, 114, NL>>
      [] kind = "unknown_empty" -> <<102, 111, 111, SP, EQUALS, SP, NL>>
      [] OTHER -> <<>>

Delimiter == <<DASH, DASH, DASH, DASH, NL>>
EditedName == <<104, 105, 46, 116, 120, 116>>
EditedComment == <<99>>
EditedExtra == <<1, 171>>
EditedCrc16 == 4660
EditedPayload == <<1, 2, 3, 4, 5>>

EditedText(i) ==
    LET flag(f) == IF f \in i.flags THEN <<49>> ELSE <<48>>
        opt(o, v) == IF o \in i.fields THEN v ELSE <<>>
        header ==
            KeyLine("id1", str(31)) \o KeyLine("id2", str(139)) \o KeyLine("cm", str(8))
            \o <<HASH, SP, 102, NL, NL>>
            \o KeyLine("ftext", str(0)) \o KeyLine("fhcrc", flag("fhcrc"))
            \o KeyLine("fextra", flag("fextra")) \o KeyLine("fname", flag("fname"))
            \o KeyLine("fcomment", flag("fcomment"))
            \o KeyLine("mtime", str(0)) \o KeyLine("xfl", str(0)) \o KeyLine("os", str(255))
            \o KeyLine("extsi1", opt("extra", str(65)))
            \o KeyLine("extsi2", opt("extra", str(112)))
            \o KeyLine("extdata", opt("extra", <<QUOTE, 48, 49, SP, 97, 98, QUOTE>>))
            \o KeyLine("name", opt("name", <<QUOTE>> \o EditedName \o <<QUOTE>>))
            \o KeyLine("comment", opt("comment", <<QUOTE>> \o EditedComment \o <<QUOTE>>))
            \o KeyLine("crc16", opt("crc16", str(EditedCrc16)))
            \o (IF i.at = "header" THEN ExtraLine(i.line) ELSE <<>>)
        payload == wrapline(b64encode(EditedPayload), WRAP_LENGTH)
        footer ==
            KeyLine("crc32", str(7)) \o (IF i.at = "footer" THEN ExtraLine(i.line) ELSE <<>>)
            \o KeyLine("isize", str(5))
    IN  CASE i.cut = "header" -> header
          [] i.cut = "payload" -> header \o Delimiter \o payload
          [] OTHER -> header \o Delimiter \o payload \o Delimiter \o footer

TextInput(fl, fs, ln, at, cut) ==
    [kind |-> "text", flags |-> fl, fields |-> fs, line |-> ln, at |-> at, cut |-> cut]

\* whether each optional field is filled in exactly when its flag is set
Coupled(i) == i.fields = {OptionalOf[f] : f \in i.flags}

TextInputs ==
    {TextInput(fl, fs, "none", "header", "none") :
        fl \in SUBSET FlagNames, fs \in SUBSET OptionalNames}
    \cup {TextInput(fl, {OptionalOf[f] : f \in fl}, ln, at, "none") :
            fl \in {{}, {"fname"}, {"fname", "fcomment"}},
            ln \in {"unknown", "unknown_empty"}, at \in {"header", "footer"}}
    \cup {TextInput(fl, {OptionalOf[f] : f \in fl}, "none", "header", cut) :
            fl \in {{}, {"fname"}}, cut \in {"header", "payload"}}

\* the strings and line lengths wrapline is applied to
WrapChars == {97, 98}
RECURSIVE SeqsUpTo(_, _)
SeqsUpTo(S, n) ==
    IF n = 0 THEN {<<>>}
    ELSE LET shorter == SeqsUpTo(S, n - 1)
         IN  shorter \cup {Append(t, c) : t \in {u \in shorter : Len(u) = n - 1}, c \in S}

WrapInputs ==
    {[kind |-> "wrap", s |-> t, n |-> k] : t \in SeqsUpTo(WrapChars, MaxWrapLen), k \in 1..MaxWrapN}

\* The streams read_string is applied to: a run of len bytes that are not
\* NUL, then the bytes of tail (none: the stream ends there; else a NUL and
\* what follows it).
CStrRun(i) == [k \in 1..i.len |-> 1 + ((i.fill + k) % 255)]
CStrBytes(i) == CStrRun(i) \o i.tail
CStrTails == {<<>>, <<0>>, <<0, 98, 0>>}
CapRuns == {MAX_STR_LENGTH - 1, MAX_STR_LENGTH, MAX_STR_LENGTH + 1}
CStrInputs ==
    {[kind |-> "cstr", len |-> n, fill |-> f, tail |-> t] :
        n \in 0..MaxRun, f \in {96, 253}, t \in CStrTails}
    \cup {[kind |-> "cstr", len |-> n, fill |-> 96, tail |-> <<0>>] : n \in CapRuns}

\* The headers format_header is applied to: a GzipHeader with the fixed
\* fields of a gzip member and each optional attribute set or left None.
FormatHeader(fx, s1, s2, ex, nm, c16) ==
    [NewHeader EXCEPT !["id1"] = Some(31), !["id2"] = Some(139), !["cm"] = Some(8),
                      !["os"] = Some(3), !["mtime"] = Some(1700000000),
                      !["fextra"] = Some(fx), !["extsi1"] = s1, !["extsi2"] = s2,
                      !["extdata"] = ex, !["name"] = nm, !["crc16"] = c16]

FormatInputs ==
    {[kind |-> "header", hd |-> FormatHeader(fx, s1, s2, ex, nm, c16)] :
        fx \in {0, 1}, s1 \in {None, Some(65), Some(112)}, s2 \in {None, Some(112)},
        ex \in {None, Some([t |-> "bytes", v |-> <<1, 171>>])},
        nm \in {None} \cup {Some([t |-> "str", v |-> n]) : n \in {EditedName, <<97, 92, 98>>}},
        c16 \in {None, Some(EditedCrc16)}}

\* ------------------------------------------------------------------------
\* State
\* ------------------------------------------------------------------------
VARIABLES
    mode,   \* what is run: "roundtrip" (decompile, then compile its output),
            \* "header" (Decompiler.read_header, then bytes(header)),
            \* "decode" (compile an edited text), "wrap" (wrapline alone),
            \* "string" (Decompiler.read_string alone), "format"
            \* (format_header, then Compiler.read_header on its text)
    input,  \* the input of the run
    pc,     \* the place of the run in the program
    pos,    \* Decompiler: the position of fpin
    hd,     \* Decompiler: header
    head,   \* Decompiler.decompile: head
    buf,    \* Decompiler.decompile: buf
    ft,     \* Decompiler.decompile: footer
    out,    \* Decompiler: what was written to fpout (wrapline's result in
            \* "wrap", read_string's in "string")
    body,   \* <<start, end>>: the part of out written between the delimiters
    tpos,   \* Compiler: the position of fpin
    chd,    \* Compiler.compile: header
    cft,    \* Compiler.compile: footer
    bout,   \* Compiler: what was written to fpout (bytes(header) in "header")
    rounds, \* Compiler.compile: the rounds its loop has taken, modulo 2
    err     \* the exception that ended the run, or NoError

vars == <<mode, input, pc, pos, hd, head, buf, ft, out, body, tpos, chd, cft, bout, rounds, err>>

Start(m, i, p) ==
    /\ mode = m
    /\ input = i
    /\ pc = p
    /\ pos = 0
    /\ hd = NewHeader
    /\ head = <<>>
    /\ buf = <<>>
    /\ ft = NewFooter
    /\ out = <<>>
    /\ body = <<0, 0>>
    /\ tpos = 0
    /\ chd = NewHeader
    /\ cft = NewFooter
    /\ bout = <<>>
    /\ rounds = 0
    /\ err = NoError

Init ==
    \/ \E i \in HeaderInputs \cup PayloadInputs : Start("roundtrip", i, "d_header")
    \/ \E i \in RawInputs : Start("roundtrip", i, "d_header")
    \/ \E i \in HeaderInputs : Start("header", i, "h_read")
    \/ \E i \in RawInputs : Start("header", i, "h_read")
    \/ \E i \in TextInputs : Start("decode", i, "c_header")
    \/ \E i \in WrapInputs : Start("wrap", i, "w_call")
    \/ \E i \in CStrInputs : Start("string", i, "s_call")
    \/ \E i \in FormatInputs : Start("format", i, "f_format")

\* ------------------------------------------------------------------------
\* Decompiler.decompile
\* ------------------------------------------------------------------------
\* header = self.read_header(fpin); fpout.write(format_header(header));
\* fpout.write('\n----\n'); buf = b''
DecompileHeader ==
    /\ pc = "d_header"
    /\ \E bytes \in {InputBytes(input)} :
       \E r \in {Decompiler_read_header(bytes)} :
         /\ hd' = r.hd
         /\ pos' = r.pos
         /\ buf' = <<>>
         /\ IF r.err # NoError
            THEN /\ err' = r.err
                 /\ pc' = "d_error"
                 /\ UNCHANGED <<out, body>>
            ELSE \E f \in {format_header(r.hd)} :
                 \E text \in {f.val \o <<NL>> \o Delimiter} :
                   /\ err' = f.err
                   /\ pc' = IF f.err # NoError THEN "d_error" ELSE "d_read"
                   /\ out' = IF f.err # NoError THEN out ELSE text
                   /\ body' = IF f.err # NoError THEN body ELSE <<Len(text), Len(text)>>
    /\ UNCHANGED <<mode, input, head, ft, tpos, chd, cft, bout, rounds>>

\* head = fpin.read(BUFFER_SIZE)
DecompileRead ==
    /\ pc = "d_read"
    /\ \E bytes \in {InputBytes(input)} :
         /\ head' = Read(bytes, pos, BUFFER_SIZE)
         /\ pos' = pos + Len(head')
    /\ pc' = "d_write"
    /\ UNCHANGED <<mode, input, hd, buf, ft, out, body, tpos, chd, cft, bout, err, rounds>>

\* the round of the loop with "buf += head" and no write: every chunk is
\* kept until the loop has ended
DecompileWrite_keeps ==
    /\ pc = "d_write"
    /\ buf' = buf \o head
    /\ pc' = IF Len(head) < BUFFER_SIZE THEN "d_tail" ELSE "d_read"
    /\ UNCHANGED <<mode, input, pos, hd, head, ft, out, body, tpos, chd, cft, bout, err, rounds>>

\* fpout.write(wrapline(self.decode_buffer(buf))); buf = head;
\* if len(head) < BUFFER_SIZE: break
DecompileWrite ==
    /\ pc = "d_write"
    /\ \E text \in {decode_buffer(buf)} :
         /\ out' = out \o wrapline(text, WRAP_LENGTH)
         /\ body' = <<body[1], Len(out')>>
    /\ buf' = head
    /\ pc' = IF Len(head) < BUFFER_SIZE THEN "d_tail" ELSE "d_read"
    /\ UNCHANGED <<mode, input, pos, hd, head, ft, tpos, chd, cft, bout, err, rounds>>

\* fpout.write(wrapline(self.decode_buffer(buf[:-8]))); fpout.write('----\n');
\* the footer unpacked from buf[-8:-4] and buf[-4:]; fpout.write(format_footer(footer))
DecompileTail ==
    /\ pc = "d_tail"
    /\ \E text \in {decode_buffer(DropLast(buf, FOOTER_SIZE))} :
       \E last \in {out \o wrapline(text, WRAP_LENGTH)} :
         LET c == SliceFromEnd(buf, 8, 4)
             z == TakeLast(buf, 4)
             ok == Len(c) = 4 /\ Len(z) = 4
             footer == [crc32 |-> Some(U32(c)), isize |-> Some(U32(z))]
         IN  /\ body' = <<body[1], Len(last)>>
             /\ err' = IF ok THEN NoError ELSE StructError
             /\ pc' = IF ok THEN "d_done" ELSE "d_error"
             /\ ft' = IF ok THEN footer ELSE ft
             /\ out' = IF ok THEN last \o Delimiter \o format_footer(footer)
                       ELSE last \o Delimiter
    /\ UNCHANGED <<mode, input, pos, hd, head, buf, tpos, chd, cft, bout, rounds>>

\* ------------------------------------------------------------------------
\* Compiler.compile
\* ------------------------------------------------------------------------
\* the text compile reads: the output of decompile, or an edited text
CompileInput == IF mode = "roundtrip" THEN out ELSE EditedText(input)

\* the text decompile wrote is handed to compile as it is
StartCompile ==
    /\ pc = "d_done"
    /\ mode = "roundtrip"
    /\ pc' = "c_header"
    /\ UNCHANGED <<mode, input, pos, hd, head, buf, ft, out, body, tpos, chd, cft, bout, err, rounds>>

\* header = self.read_header(fpin); fpout.write(bytes(header))
CompileHeader ==
    /\ pc = "c_header"
    /\ \E text \in {CompileInput} :
       \E r \in {Compiler_read_header(text, 0)} :
         /\ chd' = r.hd
         /\ tpos' = r.pos
         /\ IF r.err # NoError
            THEN /\ err' = r.err
                 /\ pc' = "c_error"
                 /\ bout' = bout
            ELSE \E b \in {HeaderBytes(r.hd)} :
                   /\ err' = b.err
                   /\ pc' = IF b.err # NoError THEN "c_error" ELSE "c_line"
                   /\ bout' = IF b.err # NoError THEN bout ELSE b.val
    /\ UNCHANGED <<mode, input, pos, hd, head, buf, ft, out, body, cft, rounds>>

\* one round of the loop of compile: a line is read and, unless it ends the
\* section, decoded and written
CompileLine ==
    /\ pc = "c_line"
    /\ \E text \in {CompileInput} :
       \E line \in {ReadLine(text, tpos)} :
         /\ tpos' = tpos + Len(line)
         /\ rounds' = (rounds + 1) % 2
         /\ IF Len(line) > MAX_LINE_LENGTH
            THEN pc' = "c_error" /\ err' = LineTooLong /\ bout' = bout
            ELSE IF is_section_end(line)
            THEN pc' = "c_footer" /\ err' = err /\ bout' = bout
            ELSE \E d \in {b64decode(strip(line))} :
                   IF ~d.ok
                   THEN pc' = "c_error" /\ err' = Base64Error /\ bout' = bout
                   ELSE pc' = "c_line" /\ err' = err /\ bout' = bout \o d.val
    /\ UNCHANGED <<mode, input, pos, hd, head, buf, ft, out, body, chd, cft>>

\* footer = self.read_footer(fpin); fpout.write(bytes(footer))
CompileFooter ==
    /\ pc = "c_footer"
    /\ \E text \in {CompileInput} :
       \E r \in {read_footer(text, tpos)} :
         /\ cft' = r.ft
         /\ tpos' = r.pos
         /\ IF r.err # NoError
            THEN /\ err' = r.err
                 /\ pc' = "c_error"
                 /\ bout' = bout
            ELSE \E b \in {FooterBytes(r.ft)} :
                   /\ err' = b.err
                   /\ pc' = IF b.err # NoError THEN "c_error" ELSE "c_done"
                   /\ bout' = IF b.err # NoError THEN bout ELSE bout \o b.val
    /\ UNCHANGED <<mode, input, pos, hd, head, buf, ft, out, body, chd, rounds>>

\* ------------------------------------------------------------------------
\* Decompiler.read_header followed by GzipHeader.__bytes__
\* ------------------------------------------------------------------------
ReadBinaryHeader ==
    /\ pc = "h_read"
    /\ \E bytes \in {InputBytes(input)} :
       \E r \in {Decompiler_read_header(bytes)} :
         /\ hd' = r.hd
         /\ pos' = r.pos
         /\ err' = r.err
         /\ pc' = IF r.err # NoError THEN "h_error" ELSE "h_bytes"
    /\ UNCHANGED <<mode, input, head, buf, ft, out, body, tpos, chd, cft, bout, rounds>>

SerializeHeader ==
    /\ pc = "h_bytes"
    /\ \E b \in {HeaderBytes(hd)} :
         /\ err' = b.err
         /\ bout' = b.val
         /\ pc' = IF b.err # NoError THEN "h_error" ELSE "h_done"
    /\ UNCHANGED <<mode, input, pos, hd, head, buf, ft, out, body, tpos, chd, cft, rounds>>

\* ------------------------------------------------------------------------
\* wrapline alone
\* ------------------------------------------------------------------------
CallWrapline ==
    /\ pc = "w_call"
    /\ out' = wrapline(input.s, input.n)
    /\ pc' = "w_done"
    /\ UNCHANGED <<mode, input, pos, hd, head, buf, ft, body, tpos, chd, cft, bout, err, rounds>>

\* ------------------------------------------------------------------------
\* Decompiler.read_string alone, on a stream at its start
\* ------------------------------------------------------------------------
CallReadString ==
    /\ pc = "s_call"
    /\ \E bytes \in {CStrBytes(input)} :
       \E r \in {read_string(bytes, 0)} :
         /\ out' = r.val
         /\ pos' = r.pos
         /\ err' = r.err
         /\ pc' = IF r.err # NoError THEN "s_error" ELSE "s_done"
    /\ UNCHANGED <<mode, input, hd, head, buf, ft, body, tpos, chd, cft, bout, rounds>>

\* ------------------------------------------------------------------------
\* format_header on a header, its text written with the delimiter line as
\* decompile writes them, and Compiler.read_header on that text
\* ------------------------------------------------------------------------
CallFormatHeader ==
    /\ pc = "f_format"
    /\ hd' = input.hd
    /\ \E f \in {format_header(input.hd)} :
         /\ err' = f.err
         /\ pc' = IF f.err # NoError THEN "f_raised" ELSE "f_read"
         /\ out' = IF f.err # NoError THEN out ELSE f.val \o <<NL>> \o Delimiter
    /\ UNCHANGED <<mode, input, pos, head, buf, ft, body, tpos, chd, cft, bout, rounds>>

ReadBackHeader ==
    /\ pc = "f_read"
    /\ \E r \in {Compiler_read_header(out, 0)} :
         /\ chd' = r.hd
         /\ tpos' = r.pos
         /\ err' = r.err
         /\ pc' = IF r.err # NoError THEN "f_error" ELSE "f_done"
    /\ UNCHANGED <<mode, input, pos, hd, head, buf, ft, out, body, cft, bout, rounds>>

Next ==
    \/ DecompileHeader
    \/ DecompileRead
    \/ DecompileWrite
    \/ DecompileTail
    \/ StartCompile
    \/ CompileHeader
    \/ CompileLine
    \/ CompileFooter
    \/ ReadBinaryHeader
    \/ SerializeHeader
    \/ CallWrapline
    \/ CallReadString
    \/ CallFormatHeader
    \/ ReadBackHeader

Spec == Init /\ [][Next]_vars

\* compile runs to its end once started: its next step, a round of its loop
\* included, is always taken
LiveSpec ==
    Init /\ [][Next]_vars /\ WF_vars(CompileHeader \/ CompileLine \/ CompileFooter)

\* ------------------------------------------------------------------------
\* Properties
\* ------------------------------------------------------------------------
\* the payload region of a gzip input, and the text decompile wrote between
\* the two delimiters
RegionOf(i) == Region(i.rlen, i.seed)
PayloadText == SubSeq(out, body[1] + 1, body[2])

\* decompile has written the header section, and decompile has ended
HeaderWritten == body[1] > 0
DecompileEnded == pc \in {"d_done", "d_error"}

\* the exceptions with which the program reports an input that ends early
TruncatedInput == {HeaderTruncated, FileTruncated}

\* C1: round trip.  When a run that decompiles a valid gzip member and
\* compiles the unedited text has ended, it has ended without an exception
\* and the bytes compile wrote are the bytes of the member.
C1_RoundTrip ==
    (/\ mode = "roundtrip"
     /\ input.kind = "gzip"
     /\ input.rlen >= FOOTER_SIZE
     /\ pc \in {"d_error", "c_error", "c_done"})
        => (pc = "c_done" /\ err = NoError /\ bout = InputBytes(input))

\* a member without optional fields whose region is one full chunk: the
\* round trip ends in decompile, with an exception
C1_Fails ==
    /\ mode = "roundtrip"
    /\ input.kind = "gzip"
    /\ input.flg = 0
    /\ input.rlen = BUFFER_SIZE
    /\ pc = "d_error"
    /\ err = StructError

\* C2: footer split.  For a region of 8 bytes or more after a header that
\* was read, decompile ends without an exception, the payload lines it wrote
\* decode to the region without its last 8 bytes, the footer is the two
\* little-endian 32-bit values of the last 8 bytes, and a region of exactly
\* 8 bytes gives an empty payload section.
C2_FooterSplit ==
    (/\ mode = "roundtrip"
     /\ input.kind = "gzip"
     /\ input.rlen >= FOOTER_SIZE
     /\ HeaderWritten
     /\ DecompileEnded)
        => /\ pc = "d_done"
           /\ err = NoError
           /\ DecodeLines(PayloadText) = DropLast(RegionOf(input), FOOTER_SIZE)
           /\ ft.crc32 = Some(U32(SliceFromEnd(RegionOf(input), 8, 4)))
           /\ ft.isize = Some(U32(TakeLast(RegionOf(input), 4)))
           /\ (input.rlen = FOOTER_SIZE => PayloadText = <<>>)

\* a region of a chunk and 3 bytes: the payload section holds the whole
\* first chunk, the 5 bytes of the footer in it too, and decompile ends with
\* an exception of unpack
C2_Fails ==
    /\ mode = "roundtrip"
    /\ input.kind = "gzip"
    /\ input.rlen = BUFFER_SIZE + 3
    /\ pc = "d_error"
    /\ err = StructError
    /\ DecodeLines(PayloadText) = SubSeq(RegionOf(input), 1, BUFFER_SIZE)

\* C3: short input.  For a region of fewer than 8 bytes after a header that
\* was read, decompile ends with the exception of an input that ends early,
\* and has written no footer values after the closing delimiter.
C3_ShortInput ==
    (/\ mode = "roundtrip"
     /\ input.kind = "gzip"
     /\ input.rlen < FOOTER_SIZE
     /\ HeaderWritten
     /\ DecompileEnded)
        => /\ pc = "d_error"
           /\ err \in TruncatedInput
           /\ ft = NewFooter
           /\ Len(out) <= body[2] + Len(Delimiter)

\* a region of 5 bytes: the footer is sliced out of the 5 bytes, and unpack
\* raises
C3_Fails ==
    /\ mode = "roundtrip"
    /\ input.kind = "gzip"
    /\ input.rlen = 5
    /\ pc = "d_error"
    /\ err = StructError
    /\ Len(out) = body[2] + Len(Delimiter)

\* C4: magic check.  For a stream that does not start with 1F 8B, the empty
\* stream and the streams of one byte included, read_header ends with the
\* exception of a stream that is no gzip file, having read the two magic
\* bytes at most.
StartsWithMagic(b) == Len(b) >= 2 /\ SubSeq(b, 1, 2) = GZIP_MAGIC

C4_MagicCheck ==
    (/\ mode = "header"
     /\ input.kind = "raw"
     /\ ~StartsWithMagic(input.bytes)
     /\ pc # "h_read")
        => (pc = "h_error" /\ err = BadMagic /\ pos <= 2)

\* the empty stream: unpack raises on the empty buffer
C4_Fails ==
    /\ mode = "header"
    /\ input.kind = "raw"
    /\ input.bytes = <<>>
    /\ pc = "h_error"
    /\ err = StructError

\* an edited text that is whole and has no line of an unknown key
PlainText == input.line = "none" /\ input.cut = "none"

\* the flag byte of the header an edited text describes
TextFlg(i) ==
    (IF "fhcrc" \in i.flags THEN FHCRC ELSE 0)
    + (IF "fextra" \in i.flags THEN FEXTRA ELSE 0)
    + (IF "fname" \in i.flags THEN FNAME ELSE 0)
    + (IF "fcomment" \in i.flags THEN FCOMMENT ELSE 0)

\* C5: flag/field coupling.  A header text with a set of flags and exactly
\* the optional fields of these flags is accepted and serialized: compile
\* goes on without an exception, the fixed header bytes written.  A text
\* with a flag whose field is missing, or a field whose flag is clear, is
\* rejected: compile ends with an exception and has written no byte.
C5_Coupling ==
    (mode = "decode" /\ PlainText /\ pc # "c_header")
        => IF Coupled(input)
           THEN /\ err = NoError
                /\ Len(bout) >= 10
                /\ SubSeq(bout, 1, 4) = <<31, 139, 8, TextFlg(input)>>
           ELSE pc = "c_error" /\ bout = <<>>

\* a name given with fname = 0: compile writes a header without the name
\* and goes on
C5_Fails ==
    /\ mode = "decode"
    /\ PlainText
    /\ input.flags = {}
    /\ input.fields = {"name"}
    /\ pc = "c_line"
    /\ err = NoError
    /\ Len(bout) = 10

\* C6: unknown keys.  A header line "key = value" with a key that is no
\* field name ends compile with the exception of an unknown field, whatever
\* the value, the empty value included.
C6_UnknownKey ==
    (/\ mode = "decode"
     /\ input.line \in {"unknown", "unknown_empty"}
     /\ input.at = "header"
     /\ pc # "c_header")
        => (pc = "c_error" /\ err = UnknownField)

\* the line "foo = " in the header section: compile goes on to the payload
C6_Fails ==
    /\ mode = "decode"
    /\ input.line = "unknown_empty"
    /\ input.at = "header"
    /\ pc = "c_line"
    /\ err = NoError

\* the header bytes before the CRC-16 that an edited text describes, as RFC
\* 1952 lays them out
TextFront(i) ==
    <<31, 139, 8, TextFlg(i)>> \o P32(0) \o <<0, 255>>
    \o (IF "fextra" \in i.flags
        THEN P16(Len(EditedExtra) + 4) \o <<65, 112>> \o P16(Len(EditedExtra))
             \o EditedExtra
        ELSE <<>>)
    \o (IF "fname" \in i.flags THEN EditedName \o <<0>> ELSE <<>>)
    \o (IF "fcomment" \in i.flags THEN EditedComment \o <<0>> ELSE <<>>)

\* the positions of the newlines in text[from+1 .. to]
NewlinesIn(text, from, to) == {j \in (from + 1)..to : text[j] = NL}

\* the lines of text[from+1 .. to] are each ended by a newline, none is
\* empty and none is longer than n
LinesWithin(text, from, to, n) ==
    \A ends \in {NewlinesIn(text, from, to)} :
        /\ to > from => to \in ends
        /\ \A j \in ends :
              /\ j # from + 1
              /\ (j - 1) \notin ends
              /\ j - from <= n + 1 \/ \E k \in (j - n - 1)..(j - 1) : k \in ends

\* C7: line wrapping.  wrapline(s, n) is s cut into consecutive pieces of
\* exactly n characters, the last one of 1..n characters, each followed by
\* one newline: the result has one newline per piece, at every (n+1)-th
\* position and at the end, the other positions carry the characters of s
\* in order, and no piece is empty (a length that is a multiple of n, or
\* zero, gives no trailing empty line).  The payload lines decompile writes
\* are never empty and never longer than 72 characters.
C7_Wrapline ==
    /\ (mode = "wrap" /\ pc = "w_done") =>
          \A s \in {input.s} : \A n \in {input.n} :
            /\ Len(out) = Len(s) + ((Len(s) + n - 1) \div n)
            /\ \A j \in 1..Len(out) :
                  IF j % (n + 1) = 0 \/ j = Len(out)
                  THEN out[j] = NL /\ j > 1 /\ out[j - 1] # NL
                  ELSE out[j] = s[j - (j \div (n + 1))]
    /\ (mode = "roundtrip" /\ HeaderWritten) =>
          LinesWithin(out, body[1], body[2], WRAP_LENGTH)

\* wrapline has cut a string of two full pieces
C7_Wrapped ==
    /\ mode = "wrap"
    /\ pc = "w_done"
    /\ Len(input.s) = 2 * input.n
    /\ Len(out) = Len(input.s) + 2
    /\ out[Len(out)] = NL

\* C8: header CRC-16 on write.  For a header text with fhcrc = 1 and the
\* fields of its other flags, compile writes the header bytes followed by
\* the CRC-16 in two little-endian bytes: the crc16 the text gives, or, when
\* the text gives none, the low 16 bits of the CRC-32 of the bytes before.
C8_HeaderCrc ==
    (/\ mode = "decode"
     /\ PlainText
     /\ "fhcrc" \in input.flags
     /\ input.fields \ {"crc16"} = {OptionalOf[f] : f \in input.flags \ {"fhcrc"}}
     /\ pc # "c_header")
        => /\ err = NoError
           /\ Len(bout) >= Len(TextFront(input)) + 2
           /\ SubSeq(bout, 1, Len(TextFront(input)) + 2)
                = TextFront(input)
                  \o P16(IF "crc16" \in input.fields THEN EditedCrc16
                         ELSE crc16(TextFront(input)))

\* fhcrc = 1 with a crc16 given and no other flag: __bytes__ raises
\* NameError and no byte is written
C8_Fails ==
    /\ mode = "decode"
    /\ PlainText
    /\ input.flags = {"fhcrc"}
    /\ input.fields = {"crc16"}
    /\ pc = "c_error"
    /\ err = NameError
    /\ bout = <<>>

\* C9: binary header round trip.  For the header of a gzip member, with any
\* of the optional fields, read_header ends without an exception at the end
\* of the header, with the fields in the attributes of their names, and
\* __bytes__ of the header it gives is the header bytes that were read.
C9_HeaderRoundTrip ==
    (mode = "header" /\ input.kind = "gzip" /\ pc \in {"h_done", "h_error"})
        => /\ pc = "h_done"
           /\ err = NoError
           /\ pos = Len(GzipHeaderBytes(input))
           /\ (Bit(input.flg, FEXTRA) = 1 => hd["extdata"] # None /\ Val(hd["extdata"]).v = input.extra)
           /\ (Bit(input.flg, FNAME) = 1 => hd["name"] # None /\ Val(hd["name"]).v = input.name)
           /\ (Bit(input.flg, FCOMMENT) = 1
                 => hd["comment"] # None /\ Val(hd["comment"]).v = input.comment)
           /\ bout = GzipHeaderBytes(input)

\* a header with the name "a" and no other optional field: read_header
\* gives the name as a str, and __bytes__ raises TypeError
C9_Fails ==
    /\ mode = "header"
    /\ input.kind = "gzip"
    /\ input.flg = FNAME
    /\ input.name = <<97>>
    /\ pc = "h_error"
    /\ err = TypeError
    /\ pos = Len(GzipHeaderBytes(input))
    /\ Val(hd["name"]) = [t |-> "str", v |-> <<97>>]

\* C10: decode terminates.  A run of compile, once started, finishes or
\* raises; when the text ends after the header delimiter and before the
\* delimiter that closes the payload section, it raises the exception of an
\* input that ends early.
C10_DecodeTerminates ==
    /\ (pc = "c_header") ~> (pc \in {"c_done", "c_error"})
    /\ (pc = "c_header" /\ mode = "decode" /\ input.cut = "payload")
         ~> (pc = "c_error" /\ err \in TruncatedInput)

\* the text that ends in the payload section: compile is in its loop with
\* the whole text read, and the next round finds it there again
C10_Fails ==
    /\ mode = "decode"
    /\ input.cut = "payload"
    /\ pc = "c_line"
    /\ tpos = Len(EditedText(input))
    /\ ENABLED CompileLine

\* C11: bounded lookahead.  At every point of the payload loop of decompile
\* the payload lines written so far decode to the front of the region, and
\* the bytes of the region read and not yet written are the bytes of buf
\* (and of head, between a read and the write that follows it): at most two
\* chunks, whatever the length of the input.
C11_BoundedLookahead ==
    (mode = "roundtrip" /\ pc \in {"d_read", "d_write", "d_tail"}) =>
        \A written \in {DecodeLines(PayloadText)} :
        \A read \in {pos - Len(GzipHeaderBytes(input))} :
            /\ written = SubSeq(RegionOf(input), 1, Len(written))
            /\ read - Len(written) = Len(buf) + (IF pc = "d_write" THEN Len(head) ELSE 0)
            /\ read - Len(written) <= 2 * BUFFER_SIZE
            /\ Len(buf) <= BUFFER_SIZE
            /\ Len(head) <= BUFFER_SIZE

\* the third read of a region of more than two chunks: the first chunk is
\* written, the second is in buf and the rest in head
C11_ThirdRead ==
    /\ mode = "roundtrip"
    /\ pc = "d_write"
    /\ input.rlen > 2 * BUFFER_SIZE
    /\ Len(buf) = BUFFER_SIZE
    /\ Len(head) > 0
    /\ body[2] > body[1]

\* C12: NAME/COMMENT length cap.  read_string on a run of n bytes before
\* the first NUL returns exactly those bytes, and stands after the NUL, for
\* every n in 0..MAX_STR_LENGTH; it raises, and returns nothing, when more
\* than MAX_STR_LENGTH bytes come before the NUL and when the stream ends
\* before a NUL.
C12_StringCap ==
    (mode = "string" /\ pc # "s_call") =>
        IF input.tail # <<>> /\ input.len <= MAX_STR_LENGTH
        THEN /\ pc = "s_done"
             /\ err = NoError
             /\ pos = input.len + 1
             /\ out = CStrRun(input)
        ELSE /\ pc = "s_error"
             /\ err \in {ValueTooLong, HeaderTruncated}
             /\ out = <<>>

\* the run of exactly MAX_STR_LENGTH bytes before its NUL: read_string has
\* raised 'value too long'
C12_Fails ==
    /\ mode = "string"
    /\ input.len = MAX_STR_LENGTH
    /\ input.tail = <<0>>
    /\ pc = "s_error"
    /\ err = ValueTooLong
    /\ pos = MAX_STR_LENGTH + 1

\* the text has the line, from the start of a line to its end
HasLine(text, line) ==
    \E k \in 0..(Len(text) - Len(line)) :
        /\ k = 0 \/ text[k] = NL
        /\ SubSeq(text, k + 1, k + Len(line)) = line

\* the attribute read back has the value (for a string, the characters) of
\* the attribute that was written
SameValue(field, was, is) ==
    IF IsNone(was) \/ IsNone(is) THEN was = is
    ELSE IF field \in StringFields THEN Val(was).v = Val(is).v
    ELSE was = is

\* C13: the lines of the header text.  In the text format_header writes for
\* a header, the line of every field shows the value of that field (nothing
\* for a field that is None), the lines of extsi1 and extsi2 included, and
\* Compiler.read_header on the text gives every field the value it had.
C13_FieldLines ==
    (mode = "format" /\ pc \in {"f_done", "f_error"}) =>
        /\ pc = "f_done"
        /\ err = NoError
        /\ \A k \in 1..Len(FormatFields) :
              \A f \in {FormatFields[k]} :
                /\ HasLine(out, KeyLine(f, FormatField(hd, f)))
                /\ SameValue(f, hd[f], chd[f])

\* a header with extsi1 = 65 and extsi2 = 112: the text has the line
\* "extsi1 = 112", and read back extsi1 is 112
C13_Fails ==
    /\ mode = "format"
    /\ pc = "f_done"
    /\ hd["extsi1"] = Some(65)
    /\ hd["extsi2"] = Some(112)
    /\ HasLine(out, KeyLine("extsi1", str(112)))
    /\ chd["extsi1"] = Some(112)

=============================================================================
